---- MODULE Spec2Model ----
(***************************************************************************)
(* SmartIR fan entity (custom_components/smartir/fan.py).                  *)
(*                                                                         *)
(* The entity's fields, the asyncio lock around send_command, the          *)
(* coroutines of the host's service calls (one task per call, suspended    *)
(* only where the code awaits: on the lock and on controller.send) and the *)
(* power-sensor callback, which has no await and so runs in one step.      *)
(* A suspended task is known by the call it runs: the one awaiting         *)
(* controller.send holds the lock, the others queue on it in FIFO order.   *)
(*                                                                         *)
(* Python's None is the string "None"; an optional argument is a sequence  *)
(* of length 0 or 1; a command payload is the key path that selects it in  *)
(* the profile's command table (<<"off">>, <<"oscillate">>,                *)
(* <<direction, speed>>), the empty sequence standing for "no payload".    *)
(***************************************************************************)
EXTENDS Integers, Sequences, FiniteSets, TLC

\* Bounds of the model.
MaxSpeeds == 3      \* length of the longest speed list of a profile
MaxTasks == 2       \* service calls in flight at the same time

None == "None"

SPEED_OFF == "off"
STATE_ON == "on"
STATE_OFF == "off"
DIRECTION_REVERSE == "reverse"
DIRECTION_FORWARD == "forward"

\* Speed names a profile's "speed" list is a prefix of.
SpeedNames == <<"low", "medium", "high", "Turbo", "max">>

\* The "speed" list of the profile the entity is set up with.
ProfileSpeeds == <<"low", "medium", "high">>

\* Percentages the host calls set_percentage / turn_on with.
Percentages == {0, 100}

\* Arguments of turn_on: <<>> is a call without a percentage.
TurnOnArgs == {<<>>}

\* States of the power sensor: on, off, or None for an entity that is absent
\* (old_state of its first event, new_state of its removal).
SensorStates == {None, STATE_ON, STATE_OFF}

VARIABLES
    speed_list,     \* self._speed_list
    commands,       \* top-level keys of self._commands
    speed,          \* self._speed
    direction,      \* self._direction
    last_on_speed,  \* self._last_on_speed
    oscillating,    \* self._oscillating: "True", "False" or None
    on_by_remote,   \* self._on_by_remote
    temp_lock,      \* self._temp_lock: [locked, waiters: the calls queued on it]
    sending,        \* the call that holds the lock and awaits controller.send
    cmd,            \* the payload of the controller.send being awaited
    sent,           \* the last payload handed to controller.send
    in_send,        \* controller.send calls that have not returned
    watched,        \* how far one service call, followed from its start to
                    \* its end, is from the lock: 0 no call is followed, 1 it
                    \* holds the lock, 1 + k it is the k-th waiter; -1 when
                    \* no call is ever followed
    sensor,         \* the power sensor's current state
    task_limit,     \* how many service calls the host runs at the same time
    last            \* what the last step did

vars == <<speed_list, commands, speed, direction, last_on_speed, oscillating,
          on_by_remote, temp_lock, sending, cmd, sent, in_send, watched,
          sensor, task_limit, last>>

NoOp == [name |-> "none", arg |-> <<>>]
NoCmd == <<>>

\* str.lower() on the names of the model.
lower(s) == IF s = "Turbo" THEN "turbo" ELSE s

InList(list, item) == \E i \in 1..Len(list) : list[i] = item

\* list.index(item)
IndexOf(list, item) ==
    CHOOSE i \in 1..Len(list) :
        list[i] = item /\ \A j \in 1..(i - 1) : list[j] # item

\* homeassistant.util.percentage.ordered_list_item_to_percentage
\* (raises ValueError when item is not in the list: callers test InList first)
ordered_list_item_to_percentage(list, item) ==
    (IndexOf(list, item) * 100) \div Len(list)

RECURSIVE percentage_scan(_, _, _)
percentage_scan(list, pct, pos) ==
    IF pos > Len(list) THEN list[Len(list)]
    ELSE IF pct <= (pos * 100) \div Len(list) THEN list[pos]
    ELSE percentage_scan(list, pct, pos + 1)

\* homeassistant.util.percentage.percentage_to_ordered_list_item
percentage_to_ordered_list_item(list, pct) == percentage_scan(list, pct, 1)

\* __init__, lines 107-114: the features the profile supports.
SupportsDirection ==
    DIRECTION_REVERSE \in commands /\ DIRECTION_FORWARD \in commands
SupportsOscillate == "oscillate" \in commands

\* The `state` property.
state == IF on_by_remote \/ speed # SPEED_OFF THEN STATE_ON ELSE SPEED_OFF

\* The `percentage` property raises ValueError for a speed outside the list.
percentage_raises == speed # SPEED_OFF /\ ~InList(speed_list, speed)
percentage ==
    IF speed = SPEED_OFF THEN 0
    ELSE ordered_list_item_to_percentage(speed_list, speed)

Profiles ==
    { {"off", "default"}, {"off", "default", "oscillate"},
      {"off", DIRECTION_FORWARD, DIRECTION_REVERSE},
      {"off", DIRECTION_FORWARD, DIRECTION_REVERSE, "oscillate"} }

\* What a step records in `last`: the handler that ran (act), its service
\* call, the payload it handed to controller.send (or none), whether it
\* called async_write_ha_state, and how the coroutine left the step.
Step(act, theop, payload, wrote, outcome) ==
    [act |-> act, op |-> theop, sent |-> payload,
     wrote |-> wrote, outcome |-> outcome]

\* __init__, lines 100-117, for the profile's speed list
Constructed(speeds) ==
    /\ speed_list = speeds
    /\ commands \in Profiles
    /\ speed = SPEED_OFF
    /\ direction = IF SupportsDirection THEN DIRECTION_REVERSE ELSE None
    /\ last_on_speed = None
    /\ oscillating = IF SupportsOscillate THEN "False" ELSE None
    /\ on_by_remote = FALSE
    /\ temp_lock = [locked |-> FALSE, waiters |-> <<>>]
    /\ sending = NoOp
    /\ cmd = NoCmd
    /\ sent = NoCmd
    /\ in_send = 0
    /\ sensor \in SensorStates
    /\ last = Step("init", NoOp, NoCmd, FALSE, "done")

Init == Constructed(ProfileSpeeds) /\ task_limit = MaxTasks /\ watched = -1

\* One more service call in flight: a call can change the state while
\* another waits for the lock behind a third that is sending.
InitBurst ==
    Constructed(ProfileSpeeds) /\ task_limit = MaxTasks + 1 /\ watched = -1

\* Service calls one at a time, for every speed list up to MaxSpeeds names.
InitConv ==
    /\ \E n \in 1..MaxSpeeds : Constructed(SubSeq(SpeedNames, 1, n))
    /\ task_limit = 1
    /\ watched = -1

\* As Init for a profile with both directions and an oscillate command
\* (every service call is available), and one service call at a time is
\* followed from its start to its end.
InitFair ==
    /\ Constructed(ProfileSpeeds)
    /\ SupportsDirection /\ SupportsOscillate
    /\ sensor = None
    /\ task_limit = MaxTasks
    /\ watched = 0

\* send_command, line 264: self._direction or "default"
direction_or_default(d) == IF d = None THEN "default" ELSE d

\* Mutant: the oscillation flag is tested before the off sentinel.
resolve_command_oscillate_first(s, d, o) ==
    IF o = "True" THEN <<"oscillate">>
    ELSE IF lower(s) = SPEED_OFF THEN <<"off">>
    ELSE <<direction_or_default(d), s>>

\* send_command, lines 267-272: the key path of the command for the state
\* read at lines 263-265 (s is not None here).
resolve_command(s, d, o) ==
    IF lower(s) = SPEED_OFF THEN <<"off">>
    ELSE IF o = "True" THEN <<"oscillate">>
    ELSE <<direction_or_default(d), s>>

\* send_command, line 267: None has no lower(), AttributeError.
lower_raises(s) == s = None

\* send_command, lines 268-272: a key the table lacks, KeyError.
lookup_raises(k) ==
    IF Len(k) = 1 THEN k[1] \notin commands
    ELSE k[1] \notin commands \/ ~InList(speed_list, k[2])

\* Mutant: leaving the block keeps the lock.
lock_kept(w) == [locked |-> TRUE, waiters |-> w]

\* send_command, line 261: leaving the `async with` block, by return or by
\* exception, releases the lock; w is the queue of the waiting calls
lock_released(w) == [locked |-> FALSE, waiters |-> w]

\* send_command, lines 262-277, from the point where the task of the call
\* theop holds the lock; w is the queue of the calls still waiting for it.
\* The coroutine runs to `await self._controller.send(command)`, or an
\* exception leaves the `async with` block (the lock is released) and ends
\* the service call.
send_command_locked(act, theop, w) ==
    /\ on_by_remote' = FALSE
    /\ IF lower_raises(speed')
          \/ lookup_raises(resolve_command(speed', direction', oscillating'))
       THEN /\ temp_lock' = lock_released(w)
            /\ UNCHANGED <<sending, cmd, sent, in_send>>
            /\ last' = Step(act, theop, NoCmd, FALSE, "raised")
       ELSE LET command == resolve_command(speed', direction', oscillating')
            IN  /\ temp_lock' = [locked |-> TRUE, waiters |-> w]
                /\ sending' = theop
                /\ cmd' = command
                /\ sent' = command
                /\ in_send' = in_send + 1
                /\ last' = Step(act, theop, command, FALSE, "sending")

\* Mutant: send_command enters its body without looking at the lock.
lock_free_unchecked == TRUE

\* send_command, line 261: asyncio.Lock.acquire returns at once when the
\* lock is free and nobody waits for it
lock_free == ~temp_lock.locked /\ temp_lock.waiters = <<>>

\* send_command, line 261: the task takes the lock at once, or queues on it.
send_command(theop) ==
    IF lock_free
    THEN send_command_locked("call", theop, <<>>)
    ELSE /\ temp_lock' = [temp_lock EXCEPT !.waiters = Append(@, theop)]
         /\ UNCHANGED <<on_by_remote, sending, cmd, sent, in_send>>
         /\ last' = Step("call", theop, NoCmd, FALSE, "waiting")

\* The service call that starts in this step may be the one followed, when
\* none is: it holds the lock, waits at the tail of the queue, or has ended.
TrackCall ==
    watched' \in
        IF watched # 0 THEN {watched}
        ELSE IF last'.outcome = "sending" THEN {0, 1}
        ELSE IF last'.outcome = "waiting"
             THEN {0, 1 + Len(temp_lock'.waiters)}
        ELSE {0}

\* The first waiter takes the lock: the followed call moves up by one, and
\* has ended when it took the lock and raised.
TrackAcquire ==
    watched' =
        IF watched <= 1 THEN watched
        ELSE IF watched = 2 /\ last'.outcome = "raised" THEN 0
        ELSE watched - 1

\* The call that holds the lock ends.
TrackReturn == watched' = IF watched = 1 THEN 0 ELSE watched

\* Service calls that have not finished.
InFlight == Len(temp_lock.waiters) + (IF sending # NoOp THEN 1 ELSE 0)

\* The host runs each service call as a task of its own.
CanCall == InFlight < task_limit

\* Mutant: the speed is indexed by the truncated quotient pct * N / 100.
speed_for_percentage_truncated(pct) ==
    IF pct = 0 THEN SPEED_OFF
    ELSE LET i == (pct * Len(speed_list)) \div 100 + 1
         IN  speed_list[IF i > Len(speed_list) THEN Len(speed_list) ELSE i]

\* async_set_percentage, lines 218-221
speed_for_percentage(pct) ==
    IF pct = 0 THEN SPEED_OFF
    ELSE percentage_to_ordered_list_item(speed_list, pct)

\* Mutant: a call for the off sentinel forgets the recorded speed.
record_last_on_speed_forgotten(s) == IF ~(s = SPEED_OFF) THEN s ELSE None

\* Mutant: the speed is recorded without the test for the off sentinel.
record_last_on_speed_unguarded(s) == s

\* async_set_percentage, lines 223-224
record_last_on_speed(s) == IF ~(s = SPEED_OFF) THEN s ELSE last_on_speed

\* async_set_percentage, lines 216-227, up to its first suspension
set_percentage_body(pct, theop) ==
    /\ speed' = speed_for_percentage(pct)
    /\ last_on_speed' = record_last_on_speed(speed')
    /\ UNCHANGED <<direction, oscillating>>
    /\ send_command(theop)

async_set_percentage(pct) ==
    /\ CanCall
    /\ set_percentage_body(pct, [name |-> "set_percentage", arg |-> <<pct>>])
    /\ UNCHANGED <<speed_list, commands, sensor, task_limit>>
    /\ TrackCall

\* Mutant: a call without a percentage always starts at the lowest speed.
turn_on_percentage_lowest ==
    ordered_list_item_to_percentage(speed_list, speed_list[1])

\* async_turn_on, lines 249-252: the percentage of a call without one
turn_on_percentage ==
    ordered_list_item_to_percentage(
        speed_list,
        IF last_on_speed # None THEN last_on_speed ELSE speed_list[1])

\* async_turn_on; arg is <<>> (no percentage) or <<percentage>>
async_turn_on(arg) ==
    /\ CanCall
    /\ set_percentage_body(
           IF arg = <<>> THEN turn_on_percentage ELSE arg[1],
           [name |-> "turn_on", arg |-> arg])
    /\ UNCHANGED <<speed_list, commands, sensor, task_limit>>
    /\ TrackCall

async_turn_off ==
    /\ CanCall
    /\ set_percentage_body(0, [name |-> "turn_off", arg |-> <<>>])
    /\ UNCHANGED <<speed_list, commands, sensor, task_limit>>
    /\ TrackCall

\* async_oscillate; the host dispatches the call only to an entity whose
\* supported_features has SUPPORT_OSCILLATE.
async_oscillate(o) ==
    /\ CanCall
    /\ SupportsOscillate
    /\ oscillating' = o
    /\ UNCHANGED <<speed, direction, last_on_speed>>
    /\ send_command([name |-> "oscillate", arg |-> <<o>>])
    /\ UNCHANGED <<speed_list, commands, sensor, task_limit>>
    /\ TrackCall

\* Mutant: a change of direction is stored and never sent.
direction_sends_never(s) == FALSE

\* Mutant: the command is sent again whatever the speed.
direction_sends_always(s) == TRUE

\* async_set_direction, line 240: does the call go on to send_command
direction_sends(s) == ~(lower(s) = SPEED_OFF)

\* async_set_direction; the host dispatches the call only to an entity
\* whose supported_features has SUPPORT_DIRECTION.
async_set_direction(d) ==
    /\ CanCall
    /\ SupportsDirection
    /\ direction' = d
    /\ UNCHANGED <<speed, last_on_speed, oscillating>>
    /\ LET theop == [name |-> "set_direction", arg |-> <<d>>]
       IN  IF lower_raises(speed)
           THEN \* self._speed.lower() on None: the call ends in AttributeError
                /\ last' = Step("call", theop, NoCmd, FALSE, "raised_early")
                /\ UNCHANGED <<on_by_remote, temp_lock, sending, cmd, sent,
                               in_send>>
           ELSE IF direction_sends(speed)
           THEN send_command(theop)
           ELSE /\ last' = Step("call", theop, NoCmd, TRUE, "done")
                /\ UNCHANGED <<on_by_remote, temp_lock, sending, cmd, sent,
                               in_send>>
    /\ UNCHANGED <<speed_list, commands, sensor, task_limit>>
    /\ TrackCall

\* send_command, line 261: the lock is free and the first waiter takes it.
Acquire ==
    /\ ~temp_lock.locked
    /\ temp_lock.waiters # <<>>
    /\ UNCHANGED <<speed, direction, last_on_speed, oscillating>>
    /\ send_command_locked("acquire", Head(temp_lock.waiters),
                           Tail(temp_lock.waiters))
    /\ UNCHANGED <<speed_list, commands, sensor, task_limit>>
    /\ TrackAcquire

\* Mutant: the exception of a failed send leaves send_command.
send_command_returns_on_success(ok) == ok

\* send_command, lines 274-277: "except Exception" catches and logs what
\* controller.send raises, so send_command returns to its caller whether
\* the send succeeded (ok) or failed (~ok)
send_command_returns(ok) == ok \in {TRUE, FALSE}

\* send_command, lines 274-277, and the caller's async_write_ha_state:
\* controller.send returns or raises (logged), the lock is released and the
\* service call writes the state and ends.
SendReturn(ok) ==
    /\ sending # NoOp
    /\ temp_lock' = lock_released(temp_lock.waiters)
    /\ sending' = NoOp
    /\ cmd' = NoCmd
    /\ in_send' = in_send - 1
    /\ last' = Step("send_return", sending, NoCmd, send_command_returns(ok),
                    IF ok THEN "done" ELSE "send_failed")
    /\ UNCHANGED <<speed, direction, last_on_speed, oscillating, on_by_remote,
                   sent, speed_list, commands, sensor, task_limit>>
    /\ TrackReturn

\* Mutant: an event is dropped only when it carries no new state.
sensor_ignored_new_only(old, new) == new = None

\* _async_power_sensor_changed, lines 285-289: the event is dropped
sensor_ignored(old, new) == new = None \/ (old # None /\ new = old)

\* Mutant: the ON branch leaves the speed as it is.
sensor_speed_remote_kept(remote, off) ==
    IF off /\ speed # SPEED_OFF THEN SPEED_OFF ELSE speed

\* Mutant: both branches leave the speed unknown.
sensor_speed_unknown_on_off(remote, off) ==
    IF remote \/ off THEN None ELSE speed

\* Mutant: the OFF branch leaves the speed as it is.
sensor_speed_off_kept(remote, off) == IF remote THEN None ELSE speed

\* _async_power_sensor_changed, lines 293 and 298-299: self._speed after
\* the branch of line 291 (remote) or of line 296 (off) was taken, or neither
sensor_speed(remote, off) ==
    IF remote THEN None
    ELSE IF off /\ speed # SPEED_OFF THEN SPEED_OFF
    ELSE speed

\* _async_power_sensor_changed, lines 283-300; old_state is the sensor's
\* state before the event, new_state the one after it.
power_sensor_changed(new) ==
    LET old == sensor
        remote == ~sensor_ignored(old, new) /\ new = STATE_ON /\ speed = SPEED_OFF
        off == ~sensor_ignored(old, new) /\ new = STATE_OFF
    IN  /\ sensor' = new
        /\ on_by_remote' = IF remote THEN TRUE ELSE IF off THEN FALSE
                           ELSE on_by_remote
        /\ speed' = sensor_speed(remote, off)
        /\ last' = Step("power_sensor",
                        [name |-> "power_sensor", arg |-> <<old, new>>],
                        NoCmd, remote \/ off, "done")
        /\ UNCHANGED <<direction, last_on_speed, oscillating, temp_lock,
                       sending, cmd, sent, in_send, watched, speed_list,
                       commands, task_limit>>

Next ==
    \/ \E pct \in Percentages : async_set_percentage(pct)
    \/ \E arg \in TurnOnArgs : async_turn_on(arg)
    \/ async_turn_off
    \/ \E o \in {"True", "False"} : async_oscillate(o)
    \/ \E d \in {DIRECTION_FORWARD, DIRECTION_REVERSE} : async_set_direction(d)
    \/ Acquire
    \/ \E ok \in BOOLEAN : SendReturn(ok)
    \/ \E new \in SensorStates : power_sensor_changed(new)

Spec == Init /\ [][Next]_vars

SpecBurst == InitBurst /\ [][Next]_vars

\* Every service call, with one argument each, and the sensor's ON and OFF
\* events.
NextFair ==
    \/ async_set_percentage(100)
    \/ async_turn_on(<<>>)
    \/ async_turn_off
    \/ async_oscillate("True")
    \/ async_set_direction(DIRECTION_FORWARD)
    \/ Acquire
    \/ \E ok \in BOOLEAN : SendReturn(ok)
    \/ \E new \in {STATE_ON, STATE_OFF} : power_sensor_changed(new)

\* The event loop runs a task that can take the lock, and every
\* controller.send returns or raises.
SpecFair ==
    /\ InitFair /\ [][NextFair]_vars
    /\ WF_vars(Acquire)
    /\ WF_vars(\E ok \in BOOLEAN : SendReturn(ok))

\* The service calls that set the speed, one at a time, with every
\* percentage of 0..100.
NextConv ==
    \/ \E pct \in 0..100 : async_set_percentage(pct)
    \/ async_turn_on(<<>>)
    \/ async_turn_off
    \/ \E ok \in BOOLEAN : SendReturn(ok)

SpecConv == InitConv /\ [][NextConv]_vars

\* The service calls, running concurrently, with a power sensor that reports
\* nothing and a controller whose sends all succeed; set_percentage is also
\* called for the lowest speed.
NextQuiet ==
    \/ \E pct \in Percentages \cup {1} : async_set_percentage(pct)
    \/ \E arg \in TurnOnArgs : async_turn_on(arg)
    \/ async_turn_off
    \/ \E o \in {"True", "False"} : async_oscillate(o)
    \/ \E d \in {DIRECTION_FORWARD, DIRECTION_REVERSE} : async_set_direction(d)
    \/ Acquire
    \/ SendReturn(TRUE)

SpecQuiet == InitBurst /\ [][NextQuiet]_vars

----------------------------------------------------------------------------
\* Steps of the handlers, as recorded in `last`.

\* A service call ran from its start to its first suspension or its end.
Called(name) == last.act = "call" /\ last.op.name = name

\* A task took the lock in this step (at once, or from the queue) and ran
\* send_command to the send or to an exception.
TookLock ==
    /\ last.act \in {"call", "acquire"}
    /\ last.outcome \in {"sending", "raised"}

\* The power-sensor callback ran.
SensorEvent == last.act = "power_sensor"

\* A call for percentage 0: turn_off(), set_percentage(0), turn_on(0).
IsOffCall(o) ==
    \/ o.name = "turn_off"
    \/ o.name \in {"set_percentage", "turn_on"} /\ o.arg = <<0>>

----------------------------------------------------------------------------
\* The contract's resolution of a command: "off" for the off sentinel, else
\* "oscillate" when oscillating is true, else
\* commands[direction or "default"][speed].
C1_Reference(s, d, o) ==
    CASE s = SPEED_OFF -> <<"off">>
      [] s # SPEED_OFF /\ o = "True" -> <<"oscillate">>
      [] OTHER -> <<(IF d = None THEN "default" ELSE d), s>>

\* C1: the payload send_command hands to controller.send is the one the
\* contract's resolution gives for the state it read under the lock; and for
\* every speed of the list or off, with any direction and oscillation
\* (absent ones included), a payload is handed over.
C1_SendResolvesReference ==
    (TookLock /\ (speed = SPEED_OFF \/ InList(speed_list, speed)))
        => /\ last.outcome = "sending"
           /\ last.sent = C1_Reference(speed, direction, oscillating)
           /\ cmd = last.sent
           /\ sent = last.sent

C1_Witness ==
    /\ TookLock
    /\ speed = "high" /\ direction = None /\ oscillating = None
    /\ sent = <<"default", "high">>

\* C2: a call for percentage 0 (set_percentage(0), turn_off()) sets the
\* speed to off, and the only payload it ever hands to controller.send is
\* the "off" command, whatever runs between its start and its send.
C2_OffCallSendsOnlyOff ==
    /\ (last.act = "call" /\ IsOffCall(last.op)) => speed = SPEED_OFF
    /\ (TookLock /\ IsOffCall(last.op) /\ last.outcome = "sending")
           => last.sent = <<"off">>

\* C3: oscillate(true) called while the speed is not the off sentinel (the
\* unknown speed of the on-by-remote state included) hands the "oscillate"
\* command to controller.send; stated for the calls that find the lock free.
C3_OscillateSendsOscillate ==
    (/\ Called("oscillate") /\ last.op.arg = <<"True">>
     /\ speed # SPEED_OFF
     /\ last.outcome # "waiting")
        => last.outcome = "sending" /\ last.sent = <<"oscillate">>

\* A call that activates the fan at a non-zero speed: set_percentage(p > 0),
\* turn_on() or turn_on(p > 0).
IsActivation(o) ==
    \/ o.name = "set_percentage" /\ o.arg[1] > 0
    \/ o.name = "turn_on" /\ (o.arg = <<>> \/ o.arg[1] > 0)

\* C4: set_direction(d) called while the speed is off stores d, hands nothing
\* to controller.send (it neither sends nor queues on the lock) and writes
\* the state; the direction changes in no other step; and an activation at a
\* non-zero speed with oscillation not true, finding the lock free, sends
\* commands[direction][speed] for the stored direction.
C4_DirectionWhileOff ==
    [][ /\ (/\ last'.act = "call" /\ last'.op.name = "set_direction"
            /\ speed = SPEED_OFF)
           => /\ direction' = last'.op.arg[1]
              /\ last'.outcome = "done"
              /\ last'.sent = NoCmd
              /\ last'.wrote
              /\ UNCHANGED <<speed, sent, sending, cmd, temp_lock>>
        /\ (direction' # direction)
           => (last'.act = "call" /\ last'.op.name = "set_direction")
        /\ (/\ last'.act = "call" /\ IsActivation(last'.op)
            /\ SupportsDirection
            /\ oscillating # "True"
            /\ last'.outcome = "sending")
           => last'.sent = <<direction, speed'>>
      ]_vars

C4_Witness ==
    /\ Called("turn_on") /\ last.outcome = "sending"
    /\ direction = DIRECTION_FORWARD
    /\ last.sent = <<DIRECTION_FORWARD, "low">>

\* C5: a power-sensor event that reports ON, with a state that differs from
\* the sensor's previous one, received while the speed is off, sets
\* on_by_remote, makes the speed unknown (None) and the reported state on,
\* writes the state, and hands nothing to controller.send.
C5_SensorOnWhileOff ==
    [][ (/\ last'.act = "power_sensor"
         /\ sensor' = STATE_ON /\ sensor # STATE_ON
         /\ speed = SPEED_OFF)
        => /\ on_by_remote' /\ speed' = None /\ state' = STATE_ON
           /\ last'.sent = NoCmd /\ last'.wrote
           /\ UNCHANGED <<sent, sending, cmd, temp_lock>>
      ]_vars

C5_Witness ==
    /\ SensorEvent /\ last.op.arg = <<STATE_OFF, STATE_ON>>
    /\ on_by_remote /\ speed = None /\ state = STATE_ON

\* C6 as stated: every power-sensor event that reports OFF leaves the speed
\* off and on_by_remote false.
C6_EveryOffEventForcesOff ==
    [][ (last'.act = "power_sensor" /\ sensor' = STATE_OFF)
        => (speed' = SPEED_OFF /\ ~on_by_remote')
      ]_vars

\* C6, amended: a power-sensor event that reports OFF with a state that
\* differs from the sensor's previous one (or with no previous state) leaves
\* the speed off and on_by_remote false, whatever the speed was.
C6_ChangedOffEventForcesOff ==
    [][ (last'.act = "power_sensor" /\ sensor' = STATE_OFF
         /\ sensor # STATE_OFF)
        => (speed' = SPEED_OFF /\ ~on_by_remote' /\ state' = SPEED_OFF)
      ]_vars

C6_Witness ==
    /\ SensorEvent /\ last.op.arg = <<STATE_ON, STATE_OFF>>
    /\ speed = SPEED_OFF /\ ~on_by_remote /\ last.wrote
    /\ sending = [name |-> "set_percentage", arg |-> <<100>>]
    /\ temp_lock.waiters = <<>>

\* C7: a power-sensor event whose state equals the sensor's previous state
\* changes nothing of the fan and writes no state, so of two consecutive
\* events reporting the same state only the first can write.
C7_UnchangedEventIgnored ==
    [][ (last'.act = "power_sensor" /\ sensor # None /\ sensor' = sensor)
        => /\ ~last'.wrote
           /\ UNCHANGED <<speed, direction, last_on_speed, oscillating,
                          on_by_remote, sent, sending, cmd, temp_lock>>
      ]_vars

C7_Witness ==
    /\ SensorEvent /\ last.op.arg = <<STATE_ON, STATE_ON>> /\ ~last.wrote
    /\ speed = SPEED_OFF /\ ~on_by_remote

\* C8: turn_on() without a percentage sets the speed to the last non-off
\* speed, or to the first speed of the list when none is recorded, records
\* it as the last non-off speed, and hands the command for it to
\* controller.send.
C8_TurnOnResumes ==
    [][ (last'.act = "call"
         /\ last'.op = [name |-> "turn_on", arg |-> <<>>])
        => /\ speed' = (IF last_on_speed # None THEN last_on_speed
                        ELSE speed_list[1])
           /\ last_on_speed' = speed'
           /\ last'.outcome = "sending"
           /\ last'.sent = C1_Reference(speed', direction, oscillating)
           /\ sent' = last'.sent
      ]_vars

C8_Witness ==
    /\ Called("turn_on") /\ last.op.arg = <<>>
    /\ speed_list = <<"low", "medium", "high">>
    /\ speed = "high" /\ last.sent = <<"default", "high">>

\* C9: the conversion between percentages and speed names is round-trip
\* stable for every speed list: a name converted to its percentage and back
\* is the same name, and a percentage of 1..100 converted to a name and that
\* name to a percentage gives a percentage of the same name; so the
\* percentage the entity reports for its speed selects that speed again.
C9_RoundTrip ==
    /\ \A i \in 1..Len(speed_list) :
          speed_for_percentage(
              ordered_list_item_to_percentage(speed_list, speed_list[i]))
          = speed_list[i]
    /\ \A p \in 1..100 :
          LET name == speed_for_percentage(p)
          IN  speed_for_percentage(
                  ordered_list_item_to_percentage(speed_list, name)) = name
    /\ InList(speed_list, speed) => speed_for_percentage(percentage) = speed

C9_Witness ==
    /\ Called("set_percentage") /\ last.op.arg = <<34>>
    /\ Len(speed_list) = 3
    /\ speed = "medium" /\ percentage = 66

\* The name of the bucket of p in 1..100: (0,100] cut into Len(speed_list)
\* buckets in list order, bucket i ending at the integer part of i*100/N.
C10_Bucket(p) ==
    LET n == Len(speed_list)
        i == CHOOSE k \in 1..n :
                 ((k - 1) * 100) \div n < p /\ p <= (k * 100) \div n
    IN  speed_list[i]

\* C10: set_percentage(p) with p in 1..100 sets the speed to the name of p's
\* bucket, records it as the last non-off speed and hands a command to
\* controller.send; with three speeds 50 gives "medium" and 100 "high";
\* set_percentage(0) sets the speed to off and leaves the last non-off speed.
C10_SetPercentageBuckets ==
    [][ (last'.act = "call" /\ last'.op.name = "set_percentage")
        => LET p == last'.op.arg[1]
           IN  /\ p > 0 => /\ speed' = C10_Bucket(p)
                           /\ last_on_speed' = speed'
                           /\ last'.outcome = "sending"
                           /\ last'.sent # NoCmd
                           /\ sent' = last'.sent
               /\ p = 0 => /\ speed' = SPEED_OFF
                           /\ last_on_speed' = last_on_speed
               /\ (p = 50 /\ Len(speed_list) = 3) => speed' = "medium"
               /\ (p = 100 /\ Len(speed_list) = 3) => speed' = "high"
      ]_vars

C10_Witness ==
    /\ Called("set_percentage") /\ last.op.arg = <<50>>
    /\ Len(speed_list) = 3
    /\ speed = "medium" /\ last_on_speed = "medium"
    /\ last.outcome = "sending"

\* C11: at most one controller.send is in progress at any time, the lock is
\* held exactly while one is, and a task resolves its command and starts
\* its send only while no other task's send is in progress.
C11_OneSendAtATime ==
    /\ in_send <= 1
    /\ temp_lock.locked <=> in_send = 1
    /\ (in_send = 1) <=> (sending # NoOp)
    /\ TookLock => in_send = (IF last.outcome = "sending" THEN 1 ELSE 0)

C11_Witness ==
    /\ last.act = "acquire" /\ last.outcome = "sending"
    /\ in_send = 1 /\ temp_lock.waiters # <<>>

\* A step in which controller.send raises.
SendFails ==
    /\ in_send' < in_send
    /\ last'.act = "send_return" /\ last'.outcome = "send_failed"

\* C12: when controller.send fails, the speed, last_on_speed, direction and
\* oscillating written by the operation stay as they are, the lock is
\* released, the state is written, and no further send is started.
C12_FailedSendCompletes ==
    [][SendFails =>
          /\ UNCHANGED <<speed, last_on_speed, direction, oscillating>>
          /\ ~temp_lock'.locked
          /\ last'.wrote
          /\ in_send' = 0 /\ sending' = NoOp /\ sent' = sent]_vars

C12_Witness ==
    /\ last.act = "send_return" /\ last.outcome = "send_failed"
    /\ last.op.name = "set_percentage" /\ last.op.arg = <<100>>
    /\ speed = "high" /\ last_on_speed = "high"
    /\ sent = <<direction_or_default(direction), "high">>
    /\ ~temp_lock.locked /\ in_send = 0

\* C13, as stated: the speed is the off sentinel or a name in the speed
\* list.
C13_SpeedOffOrListed == speed = SPEED_OFF \/ InList(speed_list, speed)

\* C13, amended: the speed is the off sentinel, a name in the speed list or
\* the unknown value None, and it becomes None only in the power-sensor
\* callback, for an ON event received while the speed is off.
C13_SpeedOffListedOrUnknown ==
    /\ [](speed = None \/ speed = SPEED_OFF \/ InList(speed_list, speed))
    /\ [][(speed' = None /\ speed # None) =>
             /\ last'.act = "power_sensor"
             /\ last'.op.arg[2] = STATE_ON
             /\ speed = SPEED_OFF]_vars

C13_Witness ==
    /\ SensorEvent /\ last.op.arg[2] = STATE_ON
    /\ speed = None /\ last_on_speed = "high"

\* The state the entity reports to the host.
Visible == <<speed, direction, oscillating, on_by_remote>>

\* A service call or a power-sensor callback ends in this step.
Ends ==
    /\ vars' # vars
    /\ last'.outcome \in {"done", "send_failed", "raised", "raised_early"}

\* C14: a step in which a service call or a power-sensor callback ends,
\* normally or by an exception, and in which speed, direction, oscillating
\* or on_by_remote change, calls async_write_ha_state.
C14_ChangeIsWritten == [][(Ends /\ Visible' # Visible) => last'.wrote]_vars

\* C15: when a turn_off() call ends, the speed is the off sentinel,
\* on_by_remote is false and the reported state is off.
C15_TurnOffEndsOff ==
    (/\ last.op.name = "turn_off"
     /\ last.outcome \in {"done", "send_failed", "raised"})
        => (speed = SPEED_OFF /\ ~on_by_remote /\ state = SPEED_OFF)

\* C16: in the on-by-remote state (on_by_remote set and the speed unknown
\* after a power-sensor ON event while off) the percentage property returns
\* 0 and the state property returns on.
C16_RemotePercentageZero ==
    (on_by_remote /\ speed = None)
        => (state = STATE_ON /\ ~percentage_raises /\ percentage = 0)

\* C17: on_by_remote is true exactly when the speed is the unknown value
\* None.
C17_RemoteIffUnknown == on_by_remote <=> (speed = None)

\* C18: with no power-sensor events and no failing sends, whenever no
\* service call is in flight and a command has been sent, the last payload
\* handed to controller.send is the resolution of the current speed,
\* direction and oscillating.
C18_LastSendAgreesWithState ==
    (InFlight = 0 /\ sent # NoCmd)
        => sent = C1_Reference(speed, direction, oscillating)

C18_Witness ==
    /\ last.act = "send_return" /\ InFlight = 0
    /\ last.op.name = "set_direction" /\ last.op.arg = <<DIRECTION_FORWARD>>
    /\ direction = DIRECTION_FORWARD /\ speed = "high"
    /\ sent = <<DIRECTION_FORWARD, "high">>

\* C19: when every controller.send returns, a service call that is followed
\* from its start, whichever it is, takes the lock if it waits for it and
\* ends, and the lock is free when it has ended.
C19_EveryCallFinishes ==
    /\ (watched > 1) ~> (watched <= 1)
    /\ (watched > 0) ~> (watched = 0)
    /\ [][(watched > 0 /\ watched' = 0) => ~temp_lock'.locked]_vars

C19_Witness ==
    /\ watched = 1 /\ temp_lock.waiters # <<>>
    /\ last.act = "acquire" /\ last.outcome = "sending"

\* C20: last_on_speed is absent (None) or a name in the speed list, never
\* the off sentinel; it changes only in the step in which set_percentage for
\* a non-zero percentage, or turn_on, is called, where it becomes the speed
\* that call sets; turn_off, oscillate, set_direction, the steps that take
\* the lock or end a send, and the power-sensor callback leave it as it is.
C20_LastOnSpeedRecorded ==
    /\ [](/\ last_on_speed # SPEED_OFF
          /\ last_on_speed = None \/ InList(speed_list, last_on_speed))
    /\ [][last_on_speed' # last_on_speed =>
             /\ last'.act = "call" /\ IsActivation(last'.op)
             /\ last_on_speed' = speed'
             /\ InList(speed_list, speed')]_vars

C20_Witness ==
    /\ Called("turn_off") /\ speed = SPEED_OFF
    /\ last_on_speed = "high" /\ sensor = STATE_ON

====
